---- MODULE Spec2Model ----
(***************************************************************************)
(* A model of the two probe variants of the repository:                    *)
(*   - the option-aware probe (package telnet): handleIAC, readUntilAny,   *)
(*     sendLine and Run;                                                   *)
(*   - the plain-line probe (package ssh, main.go): Run over a             *)
(*     bufio.Reader.                                                       *)
(* The client is one sequential thread; every blocking conn.Read is one    *)
(* step of the model.  The peer, the passing of time and the dial outcome  *)
(* are the environment.  Strings are sequences of byte values.             *)
(***************************************************************************)
EXTENDS Integers, Sequences, FiniteSets, TLC

\* ------------------------------------------------------------ bounds
\* Bytes the peer may deliver to a bare readUntilAny call (SpecRUA).
MaxStream == 4
\* Chunks the peer may deliver during one Run (Spec).
MaxChunks == 4
\* Bytes the peer may deliver to a call that meets a subnegotiation (SpecSB).
MaxSubneg == 6

\* ------------------------------------------------- protocol constants
IAC == 255
WILL == 251
WONT == 252
DO == 253
DONT == 254
SB == 250
SE == 240

\* ------------------------------------------------------------ strings
\* "ogin:"
Str_ogin == <<111, 103, 105, 110, 58>>
\* "assword:"
Str_assword == <<97, 115, 115, 119, 111, 114, 100, 58>>
\* "$ "
Str_dollar == <<36, 32>>
\* "# "
Str_hash == <<35, 32>>
\* "login:"
Str_login == <<108>> \o Str_ogin
\* "Password:"
Str_Password == <<80>> \o Str_assword
\* "\r\n" and "\n"
CRLF == <<13, 10>>
LF == <<10>>

\* strings.Contains(s, t)
Contains(s, t) ==
    \E i \in 0..(Len(s) - Len(t)) : SubSeq(s, i + 1, i + Len(t)) = t

\* only the first target looked at
ContainsFirst(s, ts) == Contains(s, ts[1])

\* the scan of readUntilAny: for _, t := range targets { strings.Contains(s, t) }
ContainsAny(s, ts) == \E i \in 1..Len(ts) : Contains(s, ts[i])

\* unicode.IsSpace on the bytes the model uses: \t \n \v \f \r and space
IsSpace(b) == b \in {9, 10, 11, 12, 13, 32}

RECURSIVE TrimLeft(_)
TrimLeft(s) ==
    IF s = <<>> THEN <<>>
    ELSE IF IsSpace(Head(s)) THEN TrimLeft(Tail(s)) ELSE s

RECURSIVE TrimRight(_)
TrimRight(s) ==
    IF s = <<>> THEN <<>>
    ELSE IF IsSpace(s[Len(s)]) THEN TrimRight(SubSeq(s, 1, Len(s) - 1)) ELSE s

\* strings.TrimSpace
TrimSpace(s) == TrimRight(TrimLeft(s))

\* ------------------------------------------------------------- errors
\* A nil error, and fmt.Errorf(format, args...)
Nil == [fmt |-> "nil", args |-> <<>>]
Errorf(f, a) == [fmt |-> f, args |-> a]
ErrTimeout == Errorf("i/o timeout", <<>>)
ErrEOF == Errorf("EOF", <<>>)

\* -------------------------------------------------------------- state
VARIABLES
    variant,      \* "telnet" (option-aware) or "plain" (plain-line)
    cfgOk,        \* schema.Unmarshal accepts the configuration
    hasDeadline,  \* ctx.Deadline() reports a deadline
    expected,     \* conf.ExpectedOutput
    pc,           \* the client's position
    stage,        \* which prompt wait of Run is running (0: a bare call)
    targets,      \* the targets of the running readUntilAny call
    buf,          \* readUntilAny's buf
    rv,           \* the value readUntilAny returned: [s, err]
    ret,          \* the value Run returned
    inbound,      \* bytes delivered by the peer and not yet read
    sent,         \* how many bytes / chunks the peer has delivered
    peerClosed,   \* the peer closed its side
    cdl,          \* deadline set on the connection: "none", "ctx", "idle"
    cexp,         \* that deadline has passed
    pastDeadline, \* the caller's deadline has passed
    rbuf,         \* bufio.Reader's buffered bytes (plain-line)
    result,       \* the plain-line variant's strings.Builder
    rd,           \* history: every byte conn.Read returned
    wr,           \* history: every conn.Write call
    starts,       \* history: positions of rd where line 126 read an IAC
    appPos,       \* history: positions of rd appended to buf
    callStart,    \* history: Len(rd) when the running readUntilAny call began
    rets,         \* history: strings returned by successful prompt waits
    closes,       \* history: number of conn.Close calls
    deferred,     \* defer conn.Close() is registered
    waits,        \* history: number of prompt waits started
    mark,         \* history: Len(rd), Len(wr) at chosen points of Run
    afterClose,   \* history: reads and writes made on a closed connection
    fails,        \* history: number of conn.Read calls that returned an error
    dialed        \* history: the dial succeeded

vars == <<variant, cfgOk, hasDeadline, expected, pc, stage, targets, buf, rv,
          ret, inbound, sent, peerClosed, cdl, cexp, pastDeadline, rbuf,
          result, rd, wr, starts, appPos, callStart, rets, closes, deferred,
          waits, mark, afterClose, fails, dialed>>

confVars == <<variant, cfgOk, hasDeadline, expected>>
plainVars == <<rbuf, result>>
runHist == <<rets, closes, deferred, waits, mark, dialed>>

\* ------------------------------------------------------ the connection
\* A read of one byte on the TCP connection returns either the byte and no
\* error, or no byte and an error; it blocks while neither is possible.
\* conn.Read returns a byte: the deadline has not passed and a byte is there
ReadOk == ~cexp /\ inbound # <<>>
\* conn.Read returns an error: the deadline has passed, or the stream ended
ReadFails == cexp \/ (inbound = <<>> /\ peerClosed)
ReadErr == IF cexp THEN ErrTimeout ELSE ErrEOF
\* conn.Write's possible outcomes (TRUE: no error)
WriteOutcomes ==
    IF cdl = "ctx" /\ cexp THEN {FALSE}
    ELSE IF peerClosed THEN {TRUE, FALSE}
    ELSE {TRUE}

\* a call of conn.Read or conn.Write that returns no read error, a call of
\* conn.Read that returns one
IoDone ==
    /\ afterClose' = IF closes > 0 THEN afterClose + 1 ELSE afterClose
    /\ fails' = fails
IoFailed ==
    /\ afterClose' = IF closes > 0 THEN afterClose + 1 ELSE afterClose
    /\ fails' = fails + 1
\* conn.Read returns one byte
TakeByte ==
    /\ inbound' = Tail(inbound)
    /\ rd' = Append(rd, Head(inbound))
    /\ IoDone
\* conn.Read returns an error and no byte
NoByte ==
    /\ UNCHANGED <<inbound, rd>>
    /\ IoFailed
\* conn.Write(bytes) is called after `n` bytes have been read
ConnWrite(bytes, n, ok) == wr' = Append(wr, [at |-> n, bytes |-> bytes, ok |-> ok])

\* ------------------------------------------------------------ handleIAC
\* no byte taken for the start of a control sequence
IsEscapeNever(firstByte) == FALSE

\* line 66: the byte starts a control sequence
IsEscape(firstByte) == firstByte = IAC

\* the two refusals exchanged: a DO answered with DONT, a WILL with WONT
RefusalSwapped(cmd, opt) == <<IAC, IF cmd = DO THEN DONT ELSE WONT, opt>>

\* lines 80 and 86: the refusal of a DO, of a WILL
Refusal(cmd, opt) == <<IAC, IF cmd = DO THEN WONT ELSE DONT, opt>>

\* the WILL case left out: IAC WILL falls to the two-byte default
AfterCmdNoWill(cmd) ==
    IF cmd = DO THEN "iac_do"
    ELSE IF cmd \in {WONT, DONT} THEN "iac_opt"
    ELSE IF cmd = SB THEN "sb_data"
    ELSE "rua_read"

\* WONT and DONT taken as two-byte commands: their option byte is not consumed
AfterCmdNoOption(cmd) ==
    IF cmd = DO THEN "iac_do"
    ELSE IF cmd = WILL THEN "iac_will"
    ELSE IF cmd = SB THEN "sb_data"
    ELSE "rua_read"

\* lines 75-112: where the command byte leads
AfterCmd(cmd) ==
    IF cmd = DO THEN "iac_do"
    ELSE IF cmd = WILL THEN "iac_will"
    ELSE IF cmd \in {WONT, DONT} THEN "iac_opt"
    ELSE IF cmd = SB THEN "sb_data"
    ELSE "rua_read"

ruaFrame == <<confVars, stage, targets, ret, sent, peerClosed, cdl, cexp,
              pastDeadline, plainVars, callStart, runHist>>

\* lines 70-75: the command byte is read
IacCmd ==
    /\ pc = "iac_cmd" /\ ReadOk
    /\ TakeByte
    /\ pc' = AfterCmd(Head(inbound))
    /\ UNCHANGED <<ruaFrame, buf, rv, wr, starts, appPos>>

\* lines 71-73: the read of the command byte fails
IacCmdFail ==
    /\ pc = "iac_cmd" /\ ReadFails
    /\ NoByte
    /\ pc' = "rua_read"
    /\ UNCHANGED <<ruaFrame, buf, rv, wr, starts, appPos>>

\* lines 78-80 (DO) and 84-86 (WILL): the option byte is read, the refusal written
IacRefuse ==
    /\ pc \in {"iac_do", "iac_will"} /\ ReadOk
    /\ TakeByte
    /\ \E ok \in WriteOutcomes :
         ConnWrite(Refusal(IF pc = "iac_do" THEN DO ELSE WILL, Head(inbound)),
                   Len(rd) + 1, ok)
    /\ pc' = "rua_read"
    /\ UNCHANGED <<ruaFrame, buf, rv, starts, appPos>>

\* lines 79-80, 85-86: the read of the option byte fails, its error is dropped
\* and opt[0] is still the zero make() left there
IacRefuseFail ==
    /\ pc \in {"iac_do", "iac_will"} /\ ReadFails
    /\ NoByte
    /\ \E ok \in WriteOutcomes :
         ConnWrite(Refusal(IF pc = "iac_do" THEN DO ELSE WILL, 0), Len(rd), ok)
    /\ pc' = "rua_read"
    /\ UNCHANGED <<ruaFrame, buf, rv, starts, appPos>>

\* lines 88-91: the option byte of a WONT or DONT is read and dropped
IacOpt ==
    /\ pc = "iac_opt" /\ ReadOk
    /\ TakeByte
    /\ pc' = "rua_read"
    /\ UNCHANGED <<ruaFrame, buf, rv, wr, starts, appPos>>

IacOptFail ==
    /\ pc = "iac_opt" /\ ReadFails
    /\ NoByte
    /\ pc' = "rua_read"
    /\ UNCHANGED <<ruaFrame, buf, rv, wr, starts, appPos>>

\* lines 96-100: a byte of subnegotiation data
SbData ==
    /\ pc = "sb_data" /\ ReadOk
    /\ TakeByte
    /\ pc' = IF Head(inbound) = IAC THEN "sb_iac" ELSE "sb_data"
    /\ UNCHANGED <<ruaFrame, buf, rv, wr, starts, appPos>>

\* an IAC after an IAC inside the subnegotiation taken as the start of a new
\* pair: the loop ends at the first IAC SE wherever it stands
SbIacRescans ==
    /\ pc = "sb_iac" /\ ReadOk
    /\ TakeByte
    /\ pc' = IF Head(inbound) = SE THEN "rua_read"
             ELSE IF Head(inbound) = IAC THEN "sb_iac" ELSE "sb_data"
    /\ UNCHANGED <<ruaFrame, buf, rv, wr, starts, appPos>>

\* lines 100-107: the byte after an IAC inside the subnegotiation
SbIac ==
    /\ pc = "sb_iac" /\ ReadOk
    /\ TakeByte
    /\ pc' = IF Head(inbound) = SE THEN "rua_read" ELSE "sb_data"
    /\ UNCHANGED <<ruaFrame, buf, rv, wr, starts, appPos>>

\* lines 97-99, 101-103: a read inside the subnegotiation fails
SbFail ==
    /\ pc \in {"sb_data", "sb_iac"} /\ ReadFails
    /\ NoByte
    /\ pc' = "rua_read"
    /\ UNCHANGED <<ruaFrame, buf, rv, wr, starts, appPos>>

\* --------------------------------------------------------- readUntilAny
\* lines 142-144: the error readUntilAny returns
ReadUntilErr(ts, cause) == Errorf("read error waiting for %v: %w", <<ts, cause>>)

\* lines 126-140: a byte is read; an IAC goes to handleIAC, any other byte is
\* appended and the buffer scanned
RuaRead ==
    /\ pc = "rua_read" /\ ReadOk
    /\ TakeByte
    /\ LET b == Head(inbound)
           s == Append(buf, b)
       IN IF IsEscape(b)
          THEN /\ pc' = "iac_cmd"
               /\ starts' = starts \cup {Len(rd) + 1}
               /\ UNCHANGED <<buf, rv, appPos>>
          ELSE /\ buf' = s
               /\ appPos' = appPos \cup {Len(rd) + 1}
               /\ starts' = starts
               /\ IF ContainsAny(s, targets)
                  THEN pc' = "ret" /\ rv' = [s |-> s, err |-> Nil]
                  ELSE pc' = "rua_read" /\ rv' = rv
    /\ UNCHANGED <<ruaFrame, wr>>

\* the error returned without the buffer
RuaReadFailEmpty ==
    /\ pc = "rua_read" /\ ReadFails
    /\ NoByte
    /\ pc' = "ret"
    /\ rv' = [s |-> <<>>, err |-> Errorf("read error waiting for %v: %w", <<targets, ReadErr>>)]
    /\ UNCHANGED <<ruaFrame, buf, wr, starts, appPos>>

\* lines 126, 142-144: the read fails
RuaReadFail ==
    /\ pc = "rua_read" /\ ReadFails
    /\ NoByte
    /\ pc' = "ret"
    /\ rv' = [s |-> buf, err |-> ReadUntilErr(targets, ReadErr)]
    /\ UNCHANGED <<ruaFrame, buf, wr, starts, appPos>>

ReadUntilAnyStep ==
    \/ RuaRead
    \/ RuaReadFail
    \/ IacCmd
    \/ IacCmdFail
    \/ IacRefuse
    \/ IacRefuseFail
    \/ IacOpt
    \/ IacOptFail
    \/ SbData
    \/ SbIac
    \/ SbFail

\* ---------------------------------------------------------- environment
envFrame == <<confVars, pc, stage, targets, buf, rv, ret, plainVars, rd, wr,
              starts, appPos, callStart, runHist, afterClose, fails>>

\* the invocation has not ended; a connection is open
Running == pc # "done" /\ ~(pc = "ret" /\ stage = 0)
Connected == Running /\ pc \notin {"start", "dial"}

\* the peer closes its side of the connection
PeerClose ==
    /\ Connected
    /\ ~peerClosed
    /\ peerClosed' = TRUE
    /\ UNCHANGED <<envFrame, inbound, sent, cdl, cexp, pastDeadline>>

\* the caller's deadline passes; a connection that carries it expires
DeadlinePasses ==
    /\ Running
    /\ hasDeadline /\ ~pastDeadline
    /\ pastDeadline' = TRUE
    /\ cexp' = IF cdl = "ctx" THEN TRUE ELSE cexp
    /\ UNCHANGED <<envFrame, inbound, sent, peerClosed, cdl>>

\* ------------------------------------------------------- configuration
\* the fields of conf that Run sends: "al", "pw", "id"
Username == <<97, 108>>
Password == <<112, 119>>
Command == <<105, 100>>
\* conf.ExpectedOutput is one of "" and "al"
ExpectedOutputs == {<<>>, <<97, 108>>}

\* ------------------------------------------------------------ Run, both
\* the close made on the success path only
RunReturnLeak(e) ==
    /\ pc' = "done"
    /\ ret' = e
    /\ closes' = IF deferred /\ e = Nil THEN closes + 1 ELSE closes

\* a return of Run: the deferred conn.Close() runs when it is registered
RunReturn(e) ==
    /\ pc' = "done"
    /\ ret' = e
    /\ closes' = IF deferred THEN closes + 1 ELSE closes

\* one buffer kept from call to call
StartWaitKeepsBuffer(k, ts) ==
    /\ pc' = "rua_read"
    /\ stage' = k
    /\ targets' = ts
    /\ buf' = buf
    /\ callStart' = Len(rd)
    /\ waits' = waits + 1

\* readUntilAny(conn, ts) is called: its buffer is a new, empty one (line 122)
StartWait(k, ts) ==
    /\ pc' = "rua_read"
    /\ stage' = k
    /\ targets' = ts
    /\ buf' = <<>>
    /\ callStart' = Len(rd)
    /\ waits' = waits + 1

\* part_000 lines 155-165, main.go lines 56-66: the configuration is decoded
\* and the deadline taken from the context
RunStart ==
    /\ pc = "start"
    /\ IF ~cfgOk
       THEN RunReturn(Errorf("schema: cannot unmarshal", <<>>))
       ELSE IF ~hasDeadline
       THEN RunReturn(Errorf("context deadline is not set", <<>>))
       ELSE pc' = "dial" /\ UNCHANGED <<ret, closes>>
    /\ UNCHANGED <<confVars, stage, targets, buf, rv, inbound, sent, peerClosed,
                   cdl, cexp, pastDeadline, plainVars, rd, wr, starts, appPos,
                   callStart, rets, deferred, waits, mark, afterClose, fails, dialed>>

\* part_000 lines 169-179, main.go lines 68-75: the dial succeeds, the close is
\* deferred; the option-aware variant sets the deadline on the connection and
\* starts the wait for the login prompt
DialOk ==
    /\ pc = "dial" /\ ~pastDeadline
    /\ deferred' = TRUE
    /\ dialed' = TRUE
    /\ IF variant = "telnet"
       THEN /\ cdl' = "ctx"
            /\ StartWait(1, <<Str_ogin>>)
       ELSE /\ pc' = "p_login"
            /\ waits' = waits + 1
            /\ UNCHANGED <<cdl, stage, targets, buf, callStart>>
    /\ UNCHANGED <<confVars, rv, ret, inbound, sent, peerClosed, cexp,
                   pastDeadline, plainVars, rd, wr, starts, appPos, rets,
                   closes, mark, afterClose, fails>>

\* the error of the dial not looked at: the exchange starts all the same
DialFailIgnored ==
    /\ pc = "dial"
    /\ IF variant = "telnet"
       THEN StartWait(1, <<Str_ogin>>)
       ELSE /\ pc' = "p_login"
            /\ waits' = waits + 1
            /\ UNCHANGED <<stage, targets, buf, callStart>>
    /\ UNCHANGED <<confVars, rv, ret, inbound, sent, peerClosed, cdl, cexp,
                   pastDeadline, plainVars, rd, wr, starts, appPos, rets,
                   closes, deferred, mark, afterClose, fails, dialed>>

\* part_000 lines 170-173, main.go lines 69-72: the dial fails
DialFail ==
    /\ pc = "dial"
    /\ RunReturn(IF variant = "telnet"
                 THEN Errorf("failed to dial %s: %w", <<"server:port", "dial error">>)
                 ELSE Errorf("tcp dial failed", <<>>))
    /\ UNCHANGED <<confVars, stage, targets, buf, rv, inbound, sent, peerClosed,
                   cdl, cexp, pastDeadline, plainVars, rd, wr, starts, appPos,
                   callStart, rets, deferred, waits, mark, afterClose, fails, dialed>>

\* ------------------------------------------------- Run, option-aware
\* lines 148-152: sendLine's bytes
Line(line) == line \o CRLF

waitFrame == <<confVars, rv, inbound, sent, peerClosed, cdl, cexp,
               pastDeadline, plainVars, rd, starts, appPos, deferred, mark, dialed>>

\* the error of the wait not looked at: the line is sent whatever it returned
AfterWaitUnchecked(k, werr, line, serr, nextTargets) ==
    /\ pc = "ret" /\ stage = k
    /\ IoDone
    /\ rets' = Append(rets, rv.s)
    /\ \E ok \in WriteOutcomes :
         /\ ConnWrite(Line(line), Len(rd), ok)
         /\ IF ok
            THEN /\ StartWait(k + 1, nextTargets)
                 /\ UNCHANGED <<ret, closes>>
            ELSE /\ RunReturn(Errorf(serr, <<"write error">>))
                 /\ UNCHANGED <<stage, targets, buf, callStart, waits>>
    /\ UNCHANGED waitFrame

\* after a prompt wait: its error ends Run; else a line is sent and the next
\* wait started.  k: the wait; werr, serr: the formats of the two errors
AfterWait(k, werr, line, serr, nextTargets) ==
    /\ pc = "ret" /\ stage = k
    /\ IoDone
    /\ IF rv.err # Nil
       THEN /\ RunReturn(Errorf(werr, <<rv.err>>))
            /\ UNCHANGED <<stage, targets, buf, callStart, waits, wr, rets>>
       ELSE /\ rets' = Append(rets, rv.s)
            /\ \E ok \in WriteOutcomes :
                 /\ ConnWrite(Line(line), Len(rd), ok)
                 /\ IF ok
                    THEN /\ StartWait(k + 1, nextTargets)
                         /\ UNCHANGED <<ret, closes>>
                    ELSE /\ RunReturn(Errorf(serr, <<"write error">>))
                         /\ UNCHANGED <<stage, targets, buf, callStart, waits>>
    /\ UNCHANGED waitFrame

\* lines 179-189
AfterLoginWait ==
    AfterWait(1, "failed waiting for login prompt: %v", Username,
              "failed sending username: %v", <<Str_assword>>)

\* conf.Password sent at the password prompt
AfterPasswordWaitSendsPassword ==
    AfterWait(2, "failed waiting for password prompt: %v", Password,
              "failed sending password: %v", <<Str_dollar, Str_hash>>)

\* lines 189-199: the line sent is conf.Username
AfterPasswordWait ==
    AfterWait(2, "failed waiting for password prompt: %v", Username,
              "failed sending password: %v", <<Str_dollar, Str_hash>>)

\* lines 199-210
AfterShellWait ==
    AfterWait(3, "failed waiting for shell prompt: %v", Command,
              "failed sending command: %v", <<Str_dollar, Str_hash>>)

\* equality in place of containment
VerdictEqual(cmdOutput, exp) ==
    IF cmdOutput # exp
    THEN Errorf("failed: outputs do not match; got: %s", <<cmdOutput>>)
    ELSE Nil

\* lines 215-219: the verdict on the captured output
Verdict(cmdOutput, exp) ==
    IF ~Contains(cmdOutput, exp)
    THEN Errorf("failed: outputs do not match; got: %s", <<cmdOutput>>)
    ELSE Nil

\* lines 210-219
AfterOutputWait ==
    /\ pc = "ret" /\ stage = 4
    /\ IF rv.err # Nil
       THEN /\ RunReturn(Errorf("failed reading command output: %v", <<rv.err>>))
            /\ rets' = rets
       ELSE /\ RunReturn(Verdict(rv.s, expected))
            /\ rets' = Append(rets, rv.s)
    /\ UNCHANGED <<waitFrame, stage, targets, buf, callStart, waits, wr, afterClose, fails>>

\* --------------------------------------------------- Run, plain-line
\* bufio.Reader.ReadString('\n'): the buffered bytes hold a whole line
HasLine(b) == Contains(b, LF)
\* the line ReadString returns, delimiter included, and what stays buffered
FirstLine(b) ==
    LET i == CHOOSE j \in 1..Len(b) : b[j] = 10 /\ \A k \in 1..(j - 1) : b[k] # 10
    IN SubSeq(b, 1, i)
RestAfterLine(b) == SubSeq(b, Len(FirstLine(b)) + 1, Len(b))

plainReadPcs == {"p_login", "p_pass", "p_post", "p_cap"}

plainFrame == <<confVars, stage, targets, buf, rv, sent, peerClosed,
                pastDeadline, starts, appPos, callStart, rets, deferred, waits, dialed>>

\* fmt.Fprintf(conn, "%s\n", line): its error is not looked at
Fprintln(line) ==
    \E ok \in WriteOutcomes : ConnWrite(line \o LF, Len(rd), ok)

\* ReadString finds no delimiter buffered and conn.Read returns what the
\* socket holds
PlainFill ==
    /\ pc \in plainReadPcs /\ ~HasLine(rbuf) /\ ReadOk
    /\ rbuf' = rbuf \o inbound
    /\ rd' = rd \o inbound
    /\ inbound' = <<>>
    /\ IoDone
    /\ UNCHANGED <<plainFrame, pc, ret, cdl, cexp, result, wr, closes, mark>>

\* main.go lines 77-86 and 88-97: a line is read; the awaited prompt is
\* answered with `answer` and ends the loop
PlainPromptLine(at, prompt, answer, next) ==
    /\ pc = at /\ HasLine(rbuf)
    /\ rbuf' = RestAfterLine(rbuf)
    /\ IF Contains(FirstLine(rbuf), prompt)
       THEN Fprintln(answer) /\ pc' = next
       ELSE wr' = wr /\ pc' = at
    /\ fails' = fails
    /\ afterClose' = afterClose + (IF closes > 0 /\ wr' # wr THEN 1 ELSE 0)
    /\ UNCHANGED <<plainFrame, ret, inbound, cdl, cexp, result, rd, closes, mark>>

\* main.go lines 79-81, 90-92, 100-102: ReadString returns an error
PlainReadErr(at) ==
    /\ pc = at /\ ~HasLine(rbuf) /\ ReadFails
    /\ rbuf' = <<>>
    /\ RunReturn(Errorf("context deadline is not set", <<>>))
    /\ IoFailed
    /\ UNCHANGED <<plainFrame, inbound, cdl, cexp, result, rd, wr, mark>>

PlainLoginLine == PlainPromptLine("p_login", Str_login, Username, "p_pass")
PlainLoginErr == PlainReadErr("p_login")
PlainPasswordLine == PlainPromptLine("p_pass", Str_Password, Password, "p_post")
PlainPasswordErr == PlainReadErr("p_pass")

\* the line after the password not looked at
PlainPostLineNoCheck ==
    /\ pc = "p_post" /\ HasLine(rbuf)
    /\ rbuf' = RestAfterLine(rbuf)
    /\ mark' = [mark EXCEPT !.post = Len(rd) - Len(rbuf')]
    /\ pc' = "p_send" /\ UNCHANGED <<ret, closes>>
    /\ UNCHANGED <<plainFrame, inbound, cdl, cexp, result, rd, wr, afterClose, fails>>

\* main.go lines 99-105: the line after the password
PlainPostLine ==
    /\ pc = "p_post" /\ HasLine(rbuf)
    /\ rbuf' = RestAfterLine(rbuf)
    /\ mark' = [mark EXCEPT !.post = Len(rd) - Len(rbuf')]
    /\ IF Contains(FirstLine(rbuf), Str_login)
       THEN RunReturn(Errorf("Login failed", <<>>))
       ELSE pc' = "p_send" /\ UNCHANGED <<ret, closes>>
    /\ UNCHANGED <<plainFrame, inbound, cdl, cexp, result, rd, wr, afterClose, fails>>

PlainPostErr == PlainReadErr("p_post")

\* main.go lines 107-113: the pause, the command, and the first read deadline
PlainSendCommand ==
    /\ pc = "p_send"
    /\ Fprintln(Command)
    /\ mark' = [mark EXCEPT !.cmd = Len(rd)]
    /\ result' = <<>>
    /\ cdl' = "idle" /\ cexp' = FALSE
    /\ pc' = "p_cap"
    /\ IoDone
    /\ UNCHANGED <<plainFrame, ret, inbound, rbuf, rd, closes>>

\* main.go lines 113-118: a line of output is kept, the read deadline set anew
PlainCaptureLine ==
    /\ pc = "p_cap" /\ HasLine(rbuf)
    /\ result' = result \o FirstLine(rbuf)
    /\ rbuf' = RestAfterLine(rbuf)
    /\ cdl' = "idle" /\ cexp' = FALSE
    /\ UNCHANGED <<plainFrame, pc, ret, inbound, rd, wr, closes, mark, afterClose, fails>>

\* the outputs compared as they are, not trimmed
PlainVerdictNoTrim(res, exp) ==
    IF res # exp
    THEN Errorf("expected output \"%s\" but got \"%s\"", <<exp, res>>)
    ELSE Nil

\* main.go lines 121-127: the verdict on the captured output
PlainVerdict(res, exp) ==
    IF TrimSpace(res) # TrimSpace(exp)
    THEN Errorf("expected output \"%s\" but got \"%s\"", <<TrimSpace(exp), TrimSpace(res)>>)
    ELSE Nil

\* main.go lines 114-127: the read fails, the loop ends, the outputs are compared
PlainCaptureEnd ==
    /\ pc = "p_cap" /\ ~HasLine(rbuf) /\ ReadFails
    /\ rbuf' = <<>>
    /\ RunReturn(PlainVerdict(result, expected))
    /\ IoFailed
    /\ UNCHANGED <<plainFrame, inbound, cdl, cexp, result, rd, wr, mark>>

\* the 250 ms of a read deadline of the capture loop pass
IdleWindowPasses ==
    /\ pc = "p_cap" /\ cdl = "idle" /\ ~cexp
    /\ cexp' = TRUE
    /\ UNCHANGED <<envFrame, inbound, sent, peerClosed, cdl, pastDeadline>>

\* ------------------------------------------------------------- the peer
\* what the peer of an option-aware probe may send in one piece:
\* "login: ", "Password: ", "$ ", "al\n$ ", and a burst of negotiation:
\* IAC DO 1, IAC WILL 3, IAC WONT 5, IAC SB 1 IAC SE
TelnetChunks ==
    { Str_login \o <<32>>, Str_Password \o <<32>>, Str_dollar,
      <<97, 108, 10>> \o Str_dollar,
      <<IAC, DO, 1, IAC, WILL, 3, IAC, WONT, 5, IAC, SB, 1, IAC, SE>> }
\* and the peer of a plain-line probe: "login:\n", "Password:\n", "al\n", "al"
PlainChunks ==
    { Str_login \o LF, Str_Password \o LF, <<97, 108, 10>>, <<97, 108>> }

PeerSendChunk ==
    /\ Connected
    /\ inbound = <<>> /\ ~peerClosed /\ sent < MaxChunks
    /\ \E c \in (IF variant = "telnet" THEN TelnetChunks ELSE PlainChunks) :
         inbound' = c
    /\ sent' = sent + 1
    /\ UNCHANGED <<envFrame, peerClosed, cdl, cexp, pastDeadline>>

\* ------------------------------------------------------------- one Run
Init ==
    /\ variant \in {"telnet", "plain"}
    /\ cfgOk \in BOOLEAN /\ hasDeadline \in BOOLEAN
    /\ expected \in ExpectedOutputs
    /\ pc = "start" /\ stage = 1
    /\ targets = <<>>
    /\ buf = <<>> /\ rv = [s |-> <<>>, err |-> Nil] /\ ret = Nil
    /\ inbound = <<>> /\ sent = 0 /\ peerClosed = FALSE
    /\ cdl = "none" /\ cexp = FALSE /\ pastDeadline = FALSE
    /\ rbuf = <<>> /\ result = <<>>
    /\ rd = <<>> /\ wr = <<>> /\ starts = {} /\ appPos = {} /\ callStart = 0
    /\ rets = <<>> /\ closes = 0 /\ deferred = FALSE /\ waits = 0
    /\ mark = [post |-> 0, cmd |-> 0]
    /\ afterClose = 0 /\ fails = 0 /\ dialed = FALSE

TelnetStep ==
    \/ ReadUntilAnyStep
    \/ AfterLoginWait
    \/ AfterPasswordWait
    \/ AfterShellWait
    \/ AfterOutputWait

PlainStep ==
    \/ PlainFill
    \/ PlainLoginLine
    \/ PlainLoginErr
    \/ PlainPasswordLine
    \/ PlainPasswordErr
    \/ PlainPostLine
    \/ PlainPostErr
    \/ PlainSendCommand
    \/ PlainCaptureLine
    \/ PlainCaptureEnd

\* a step of the client
ClientStep ==
    \/ RunStart
    \/ DialOk
    \/ DialFail
    \/ TelnetStep
    \/ PlainStep

Environment ==
    \/ PeerSendChunk
    \/ PeerClose
    \/ DeadlinePasses
    \/ IdleWindowPasses

Next == ClientStep \/ Environment

Spec == Init /\ [][Next]_vars

\* The client is sequential code that runs whenever it is not blocked, and
\* time passes: the caller's deadline and a read deadline of the capture loop
\* are reached.  Nothing is assumed of the peer.
FairSpec ==
    /\ Spec
    /\ WF_vars(ClientStep)
    /\ WF_vars(DeadlinePasses)
    /\ WF_vars(IdleWindowPasses)

\* ------------------------------------- one option-aware Run, its peer open
\* An option-aware probe with a valid configuration and a deadline, and a
\* peer that sends or stays silent but keeps the connection open.
InitTelnet ==
    /\ Init
    /\ variant = "telnet" /\ cfgOk /\ hasDeadline
    /\ expected = <<97, 108>>

TelnetClientStep ==
    \/ RunStart
    \/ DialOk
    \/ DialFail
    \/ TelnetStep

NextTelnet ==
    \/ TelnetClientStep
    \/ PeerSendChunk
    \/ DeadlinePasses

TelnetFairSpec ==
    /\ InitTelnet /\ [][NextTelnet]_vars
    /\ WF_vars(TelnetClientStep)
    /\ WF_vars(DeadlinePasses)

\* ------------------------------------------- a bare readUntilAny call
\* the bytes a peer may send to a bare call, and the targets of the call
\* ("a" is 97, "b" is 98)
StreamBytes == {97, 98, IAC, DO, WILL, WONT, DONT, SB, SE}
TargetLists == {<< <<97>> >>, << <<97, 98>> >>, << <<98, 98>>, <<98, 97>> >>}

PeerSendByte ==
    /\ pc # "ret"
    /\ inbound = <<>> /\ ~peerClosed /\ sent < MaxStream
    /\ \E b \in StreamBytes : inbound' = <<b>>
    /\ sent' = sent + 1
    /\ UNCHANGED <<envFrame, peerClosed, cdl, cexp, pastDeadline>>

InitRUA ==
    /\ variant = "telnet" /\ cfgOk = TRUE /\ hasDeadline = TRUE
    /\ expected = <<>>
    /\ pc = "rua_read" /\ stage = 0
    /\ targets \in TargetLists
    /\ buf = <<>> /\ rv = [s |-> <<>>, err |-> Nil] /\ ret = Nil
    /\ inbound = <<>> /\ sent = 0 /\ peerClosed = FALSE
    /\ cdl = "ctx" /\ cexp = FALSE /\ pastDeadline = FALSE
    /\ rbuf = <<>> /\ result = <<>>
    /\ rd = <<>> /\ wr = <<>> /\ starts = {} /\ appPos = {} /\ callStart = 0
    /\ rets = <<>> /\ closes = 0 /\ deferred = TRUE /\ waits = 1
    /\ mark = [post |-> 0, cmd |-> 0]
    /\ afterClose = 0 /\ fails = 0 /\ dialed = TRUE

NextRUA ==
    \/ ReadUntilAnyStep
    \/ PeerSendByte
    \/ PeerClose
    \/ DeadlinePasses

SpecRUA == InitRUA /\ [][NextRUA]_vars

\* ------------------------- a readUntilAny call that meets subnegotiations
\* the peer sends no option request, only text ("a"), IAC, SB and SE; the
\* call waits for "a"
SubnegBytes == {97, IAC, SB, SE}

PeerSendSubneg ==
    /\ pc # "ret"
    /\ inbound = <<>> /\ ~peerClosed /\ sent < MaxSubneg
    /\ \E b \in SubnegBytes : inbound' = <<b>>
    /\ sent' = sent + 1
    /\ UNCHANGED <<envFrame, peerClosed, cdl, cexp, pastDeadline>>

InitSB == InitRUA /\ targets = << <<97>> >>

\* the steps of readUntilAny and handleIAC such a stream can lead to
NextSB ==
    \/ RuaRead
    \/ RuaReadFail
    \/ IacCmd
    \/ IacCmdFail
    \/ SbData
    \/ SbIac
    \/ SbFail
    \/ PeerSendSubneg
    \/ PeerClose
    \/ DeadlinePasses

SpecSB == InitSB /\ [][NextSB]_vars

\* =====================================================================
\* Properties
\* =====================================================================

\* t occurs in s as a substring
Occurs(t, s) == \E i \in 1..(Len(s) - Len(t) + 1) : SubSeq(s, i, i + Len(t) - 1) = t
\* some target of the list occurs in s
HasTarget(s, ts) == \E k \in DOMAIN ts : Occurs(ts[k], s)

\* The control-sequence automaton of the option filter, as the specification
\* describes it: the state after each byte of a stream.
FsmStep(st, b) ==
    CASE st = "Normal" -> IF b = IAC THEN "AfterEscape" ELSE "Normal"
      [] st = "AfterEscape" ->
            IF b \in {DO, WILL, WONT, DONT} THEN "AfterCommand"
            ELSE IF b = SB THEN "InSubnegotiation" ELSE "Normal"
      [] st = "AfterCommand" -> "Normal"
      [] st = "InSubnegotiation" -> IF b = IAC THEN "SubEscape" ELSE "InSubnegotiation"
      [] st = "SubEscape" -> IF b = SE THEN "Normal" ELSE "InSubnegotiation"

RECURSIVE FsmAfter(_)
FsmAfter(s) ==
    IF s = <<>> THEN "Normal"
    ELSE FsmStep(FsmAfter(SubSeq(s, 1, Len(s) - 1)), s[Len(s)])

\* the application bytes of a stream: those read in state Normal that are
\* not the escape byte
RECURSIVE AppBytes(_)
AppBytes(s) ==
    IF s = <<>> THEN <<>>
    ELSE LET front == SubSeq(s, 1, Len(s) - 1)
             b == s[Len(s)]
         IN IF FsmAfter(front) = "Normal" /\ b # IAC
            THEN Append(AppBytes(front), b)
            ELSE AppBytes(front)

\* the bytes the running (or just ended) readUntilAny call has read
CallBytes == SubSeq(rd, callStart + 1, Len(rd))

\* the writes made when exactly n bytes had been read
WritesAt(n) == {i \in DOMAIN wr : wr[i].at = n}

\* the request IAC DO x / IAC WILL x whose three bytes are rd[p..p+2] was
\* answered at once, by one write of the refusal of x, and none of its bytes
\* went to the buffer
Answered(p) ==
    /\ WritesAt(p) = {} /\ WritesAt(p + 1) = {}
    /\ \E i \in DOMAIN wr :
         /\ WritesAt(p + 2) = {i}
         /\ wr[i].bytes = <<IAC, IF rd[p + 1] = DO THEN WONT ELSE DONT, rd[p + 2]>>
    /\ appPos \cap {p, p + 1, p + 2} = {}

\* C1: when readUntilAny's own read (not a read inside a control sequence)
\* returns IAC and the next two bytes read are DO x (WILL x), the client has
\* written exactly IAC WONT x (IAC DONT x), once, before any further byte is
\* read, and none of the three bytes is in the buffer.
C1_RefusalAtSequenceStart ==
    \A p \in starts :
        (p + 2 <= Len(rd) /\ rd[p + 1] \in {DO, WILL}) => Answered(p)

\* the case of C1: a DO was refused and a further byte has been read since
C1_Witness ==
    \E p \in starts : p + 3 <= Len(rd) /\ rd[p + 1] = DO /\ Len(wr) = 1

\* C2 as stated: wherever IAC DO x (IAC WILL x) occurs in the stream read,
\* whatever precedes it, it is answered and none of its bytes is buffered.
C2_AnyOccurrenceAnswered ==
    \A p \in 1..(Len(rd) - 2) :
        (rd[p] = IAC /\ rd[p + 1] \in {DO, WILL}) => Answered(p)

\* C2, amended: wherever IAC DO x (IAC WILL x) occurs in the stream read at a
\* position that is not inside an earlier control sequence (the automaton is
\* in state Normal before the IAC), it is answered and none of its bytes is
\* buffered.
C2_OccurrenceOutsideSequenceAnswered ==
    \A p \in 1..(Len(rd) - 2) :
        ( /\ rd[p] = IAC /\ rd[p + 1] \in {DO, WILL}
          /\ FsmAfter(SubSeq(rd, 1, p - 1)) = "Normal" ) => Answered(p)

\* the case of C2: a WILL preceded by other bytes was refused
C2_Witness ==
    \E p \in 2..(Len(rd) - 2) :
        /\ rd[p] = IAC /\ rd[p + 1] = WILL
        /\ FsmAfter(SubSeq(rd, 1, p - 1)) = "Normal"
        /\ Len(wr) > 0

\* C3: readUntilAny returns success at the first moment the buffer holds a
\* target and not before: while it runs the buffer holds no target; the
\* string it returns without error is the application bytes of all it read,
\* holds a target, and no proper prefix of it holds one.
C3_ReturnsAtFirstMatch ==
    /\ pc # "ret" => ~HasTarget(buf, targets)
    /\ (pc = "ret" /\ rv.err = Nil) =>
          /\ rv.s = AppBytes(CallBytes)
          /\ HasTarget(rv.s, targets)
          /\ \A n \in 0..(Len(rv.s) - 1) : ~HasTarget(SubSeq(rv.s, 1, n), targets)

\* the case of C3: a match across a control sequence that was filtered out
C3_Witness ==
    /\ pc = "ret" /\ rv.err = Nil
    /\ starts # {} /\ Len(rv.s) = 2 /\ Len(targets) = 2

\* C4: when a read fails, readUntilAny returns an error together with the
\* application bytes of all it read in this call, no more and no fewer; a
\* string returned with an error holds no target, so a match and an error
\* never come together.
C4_ErrorCarriesPartialBuffer ==
    /\ (pc = "ret" /\ fails > 0) => rv.err # Nil
    /\ (pc = "ret" /\ rv.err # Nil) =>
          /\ fails > 0
          /\ rv.s = AppBytes(CallBytes)
          /\ ~HasTarget(rv.s, targets)

\* the case of C4: a read fails after application bytes and a control
\* sequence were read
C4_Witness ==
    /\ pc = "ret" /\ rv.err # Nil
    /\ rv.s # <<>> /\ starts # {}

\* the bytes of the writes that are not refusal triples, in order
AppWrites ==
    LET app == SelectSeq(wr, LAMBDA w : w.bytes[1] # IAC)
    IN [i \in 1..Len(app) |-> app[i].bytes]

\* C5: when Run obtains no connection (no deadline in the context, so no dial
\* is made, or the dial fails) it returns an error, and no prompt wait was
\* started, no read was made and nothing was written.
C5_NoConnectionNoTraffic ==
    /\ ~hasDeadline => (pc # "dial" /\ ~dialed)
    /\ (pc = "done" /\ ~dialed) =>
          /\ ret.fmt # "nil"
          /\ waits = 0 /\ rd = <<>> /\ fails = 0 /\ wr = <<>>

\* the case of C5: the dial of a well-configured probe failed
C5_Witness ==
    /\ pc = "done" /\ ~dialed /\ cfgOk /\ hasDeadline
    /\ ret.fmt = "tcp dial failed"

\* C6: the connection of a Run whose dial succeeded is closed when Run has
\* returned, on every path, exactly once and not before; no read or write is
\* made on it after the close.
C6_ClosedExactlyOnce ==
    /\ closes = (IF pc = "done" /\ dialed THEN 1 ELSE 0)
    /\ afterClose = 0

\* the case of C6: Run returned on a send error and the connection is closed
C6_Witness ==
    /\ pc = "done" /\ dialed /\ closes = 1
    /\ ret.fmt = "failed sending username: %v"

\* C7: an option-aware Run whose four waits and three sends succeeded returns
\* nil when the string the fourth wait returned contains expected_output,
\* and otherwise the output-mismatch error carrying that whole string.
C7_PassIffContains ==
    (pc = "done" /\ variant = "telnet" /\ Len(rets) = 4) =>
        IF Occurs(expected, rets[4])
        THEN ret.fmt = "nil"
        ELSE /\ ret.fmt = "failed: outputs do not match; got: %s"
             /\ ret.args = <<rets[4]>>

\* the case of C7: the captured output holds the prompt but not the expected text
C7_Witness ==
    /\ pc = "done" /\ variant = "telnet" /\ Len(rets) = 4
    /\ expected # <<>> /\ ret.fmt = "failed: outputs do not match; got: %s"

\* the plain-line Run reached its comparison
PlainCompared == pc = "done" /\ variant = "plain" /\ cdl = "idle"

\* s up to its last line feed: the whole lines of s
CompleteLines(s) ==
    IF \E i \in DOMAIN s : s[i] = 10
    THEN SubSeq(s, 1, CHOOSE i \in DOMAIN s : s[i] = 10 /\ \A j \in (i + 1)..Len(s) : s[j] # 10)
    ELSE <<>>

\* C8 as stated: the plain-line Run succeeds exactly when everything received
\* after the command was sent, trimmed, equals the trimmed expected_output.
C8_PassIffAllReceivedEquals ==
    PlainCompared =>
        (ret.fmt = "nil" <=>
            TrimSpace(SubSeq(rd, mark.cmd + 1, Len(rd))) = TrimSpace(expected))

\* C8, amended: the plain-line Run succeeds exactly when the whole
\* (newline-terminated) lines read after the post-password line, trimmed,
\* equal the trimmed expected_output; bytes after the last line feed are
\* dropped with the failing read.
C8_PassIffCompleteLinesEqual ==
    PlainCompared =>
        (ret.fmt = "nil" <=>
            TrimSpace(CompleteLines(SubSeq(rd, mark.post + 1, Len(rd)))) = TrimSpace(expected))

\* the case of C8: a line of output was captured and equals the expected text
\* once trimmed
C8_Witness ==
    /\ PlainCompared /\ ret.fmt = "nil"
    /\ result # <<>> /\ expected # <<>> /\ result # expected

\* the positions of the client inside readUntilAny
InWait == pc \in {"rua_read", "iac_cmd", "iac_do", "iac_will", "iac_opt", "sb_data", "sb_iac"}

\* the prompt-wait error of each stage
WaitError(k) ==
    CASE k = 1 -> "failed waiting for login prompt: %v"
      [] k = 2 -> "failed waiting for password prompt: %v"
      [] k = 3 -> "failed waiting for shell prompt: %v"
      [] k = 4 -> "failed reading command output: %v"

\* the lines an option-aware Run sends, in order
SendScript == <<Username \o <<13, 10>>, Username \o <<13, 10>>, Command \o <<13, 10>>>>

C9_Safety ==
    (variant = "telnet" /\ pc = "done" /\ dialed /\ rv.err.fmt # "nil") =>
        /\ ret.fmt = WaitError(stage)
        /\ AppWrites = SubSeq(SendScript, 1, stage - 1)
        /\ closes = 1

\* C9: an option-aware Run whose deadline passes while it waits for the text
\* of a stage ends with the prompt-wait error of that stage; a Run that ended
\* on a failed wait returned that stage's error, sent the lines of the
\* earlier stages and no other, and closed the connection.
C9_StageFailureIsTerminal ==
    /\ []C9_Safety
    /\ \A k \in 1..4 :
         (variant = "telnet" /\ InWait /\ stage = k /\ cexp)
            ~> (pc = "done" /\ ret.fmt = WaitError(k) /\ closes = 1)

\* the case of C9: the login prompt came, the password prompt never did
C9_Witness ==
    /\ variant = "telnet" /\ pc = "done" /\ pastDeadline
    /\ ret.fmt = "failed waiting for password prompt: %v"
    /\ AppWrites = <<Username \o <<13, 10>>>>
    /\ closes = 1

\* C10: in both variants, once the caller's deadline has passed every blocked
\* or later read fails, so Run ends whatever the peer does.
C10_RunTerminates == pastDeadline ~> (pc = "done")

\* the texts the wait of stage k looks for
PromptOf(k) ==
    CASE k = 1 -> <<Str_ogin>>
      [] k = 2 -> <<Str_assword>>
      [] k \in {3, 4} -> <<Str_dollar, Str_hash>>

\* C11: the lines an option-aware Run has written (its writes other than
\* refusal triples) are a prefix of username, username, command, each with
\* CRLF; the k-th line is written only after the k-th wait returned a string
\* holding that stage's prompt; the configured password is in no write.
C11_SendsFollowScript ==
    variant = "telnet" =>
        LET lines == AppWrites
        IN /\ Len(lines) <= 3
           /\ lines = SubSeq(SendScript, 1, Len(lines))
           /\ Len(lines) <= Len(rets)
           /\ \A k \in 1..Len(lines) : HasTarget(rets[k], PromptOf(k))
           /\ \A i \in DOMAIN wr : ~Occurs(Password, wr[i].bytes)

\* the case of C11: all three lines were written
C11_Witness ==
    /\ variant = "telnet" /\ Len(AppWrites) = 3
    /\ AppWrites[2] = Username \o <<13, 10>>

\* the whole lines of s, each with its line feed, in order
RECURSIVE LinesOf(_)
LinesOf(s) ==
    IF \A i \in DOMAIN s : s[i] # 10 THEN <<>>
    ELSE LET n == CHOOSE i \in DOMAIN s : s[i] = 10 /\ \A j \in 1..(i - 1) : s[j] # 10
         IN <<SubSeq(s, 1, n)>> \o LinesOf(SubSeq(s, n + 1, Len(s)))

\* the lines the plain-line Run has read so far: those received less those
\* still buffered
LinesRead ==
    LET all == LinesOf(rd)
    IN SubSeq(all, 1, Len(all) - Len(LinesOf(rbuf)))

\* the first of the lines ls from index `from` on that holds t (0: none)
FirstHolding(ls, t, from) ==
    IF \E k \in from..Len(ls) : Occurs(t, ls[k])
    THEN CHOOSE k \in from..Len(ls) :
            Occurs(t, ls[k]) /\ \A j \in from..(k - 1) : ~Occurs(t, ls[j])
    ELSE 0

\* among the lines ls: the first that holds "login:", and the first after it
\* that holds "Password:" (0: none yet)
LoginLine(ls) == FirstHolding(ls, Str_login, 1)
PasswordLine(ls) ==
    IF LoginLine(ls) > 0 THEN FirstHolding(ls, Str_Password, LoginLine(ls) + 1) ELSE 0
\* the line after the password line was read and holds "login:" again
Rejected(ls) ==
    /\ PasswordLine(ls) > 0 /\ Len(ls) > PasswordLine(ls)
    /\ Occurs(Str_login, ls[PasswordLine(ls) + 1])

\* C12: the plain-line Run writes the username line exactly when it has read
\* a line holding "login:", the password line exactly when it has then read
\* a line holding "Password:"; when the very next line read holds "login:"
\* Run has returned "Login failed" and the command is never written; the
\* command is written only when that next line was read and does not hold
\* "login:".
C12_PlainSendsFollowPrompts ==
    variant = "plain" =>
        LET ls == LinesRead
            k1 == LoginLine(ls)
            k2 == IF k1 > 0 THEN FirstHolding(ls, Str_Password, k1 + 1) ELSE 0
            rejected == k2 > 0 /\ Len(ls) > k2 /\ Occurs(Str_login, ls[k2 + 1])
        IN /\ Len(AppWrites) <= 3
           /\ AppWrites = SubSeq(<<Username \o <<10>>, Password \o <<10>>, Command \o <<10>>>>,
                                 1, Len(AppWrites))
           /\ Len(AppWrites) >= 1 <=> k1 > 0
           /\ Len(AppWrites) >= 2 <=> k2 > 0
           /\ Len(AppWrites) = 3 => (Len(ls) > k2 /\ ~rejected)
           /\ rejected <=> ret.fmt = "Login failed"
           /\ rejected => (pc = "done" /\ Len(AppWrites) = 2)

\* the case of C12: the line after the password asked for the login again
C12_Witness ==
    /\ variant = "plain" /\ pc = "done" /\ ret.fmt = "Login failed"
    /\ Rejected(LinesRead) /\ Len(AppWrites) = 2

\* s is a prefix of t
IsPrefix(s, t) == Len(s) <= Len(t) /\ SubSeq(t, 1, Len(s)) = s

\* the automaton run over a stream in one pass: its state at the end and the
\* application bytes it let through
RECURSIVE FilterTo(_, _)
FilterTo(s, n) ==
    IF n = 0 THEN [st |-> "Normal", out |-> <<>>]
    ELSE LET r == FilterTo(s, n - 1)
         IN [st |-> FsmStep(r.st, s[n]),
             out |-> IF r.st = "Normal" /\ s[n] # IAC THEN Append(r.out, s[n]) ELSE r.out]
FilterRun(s) == FilterTo(s, Len(s))

\* the strings of a sequence joined
RECURSIVE Flatten(_)
Flatten(ss) == IF ss = <<>> THEN <<>> ELSE Flatten(SubSeq(ss, 1, Len(ss) - 1)) \o ss[Len(ss)]

\* the bytes appended to a buffer since the connection was opened, in order
Appended ==
    LET at == SelectSeq([i \in 1..Len(rd) |-> i], LAMBDA i : i \in appPos)
    IN [k \in 1..Len(at) |-> rd[at[k]]]

\* C13 as stated: the string each wait returns extends the string the
\* previous wait returned, so the fourth holds all application bytes received
\* since the connection was opened.
C13_EachReturnExtendsPrevious ==
    variant = "telnet" =>
        /\ \A i \in 2..Len(rets) : IsPrefix(rets[i - 1], rets[i])
        /\ Len(rets) = 4 => rets[4] = FilterRun(rd).out

\* C13, amended: every wait starts with an empty buffer: the strings the
\* waits returned, followed by the buffer of the wait not yet returned, are
\* consecutive pieces of the bytes appended since the connection was opened,
\* so each holds only what was read during its own wait.
C13_EachWaitStartsEmpty ==
    (variant = "telnet" /\ dialed) =>
        Appended = Flatten(rets) \o (IF Len(rets) < waits THEN buf ELSE <<>>)

\* the case of C13: the fourth wait returned a string that does not begin
\* with what the third returned
C13_Witness ==
    /\ variant = "telnet" /\ Len(rets) = 4
    /\ rets[3] # <<>> /\ ~IsPrefix(rets[3], rets[4])

\* Run reached its comparison, and the output it captured
Compared ==
    /\ pc = "done"
    /\ IF variant = "telnet" THEN Len(rets) = 4 ELSE cdl = "idle"
Captured == IF variant = "telnet" THEN rets[4] ELSE result

\* C14: in both variants, with expected_output empty, a Run that matched all
\* prompts and captured output that is not empty (nor all whitespace) returns
\* the output-mismatch error.
C14_EmptyExpectedNeedsEmptyOutput ==
    (Compared /\ expected = <<>> /\ TrimSpace(Captured) # <<>>) =>
        ret.fmt = (IF variant = "telnet"
                   THEN "failed: outputs do not match; got: %s"
                   ELSE "expected output \"%s\" but got \"%s\"")

\* the stage at which a Run that returned an error failed, from what it did
FailedStage ==
    IF ~cfgOk THEN "config"
    ELSE IF ~hasDeadline THEN "no deadline"
    ELSE IF ~dialed THEN "dial"
    ELSE IF variant = "telnet"
    THEN IF rv.err.fmt # "nil"
         THEN CASE stage = 1 -> "login wait" [] stage = 2 -> "password wait"
                [] stage = 3 -> "shell wait" [] stage = 4 -> "output"
         ELSE IF Len(rets) = 4 THEN "mismatch" ELSE "send"
    ELSE IF cdl = "idle" THEN "mismatch"
         ELSE IF mark.post > 0 THEN "rejected"
         ELSE CASE Len(wr) = 0 -> "login wait" [] Len(wr) = 1 -> "password wait"
                [] Len(wr) = 2 -> "shell wait"

\* the stage an error value names
StageNamed(e) ==
    CASE e.fmt = "schema: cannot unmarshal" -> "config"
      [] e.fmt = "context deadline is not set" -> "no deadline"
      [] e.fmt \in {"tcp dial failed", "failed to dial %s: %w"} -> "dial"
      [] e.fmt = "failed waiting for login prompt: %v" -> "login wait"
      [] e.fmt = "failed waiting for password prompt: %v" -> "password wait"
      [] e.fmt = "failed waiting for shell prompt: %v" -> "shell wait"
      [] e.fmt = "failed reading command output: %v" -> "output"
      [] e.fmt \in {"failed sending username: %v", "failed sending password: %v",
                    "failed sending command: %v"} -> "send"
      [] e.fmt = "Login failed" -> "rejected"
      [] OTHER -> "mismatch"

\* the error value has, after its cause, the text s among its arguments
CarriesText(e, s) == Len(e.args) >= 2 /\ \E i \in 2..Len(e.args) : e.args[i] = s

\* C15: in both variants the error a failed Run returns names the stage that
\* failed (the login, password, shell and output stages, the missing deadline
\* and the failed dial all differ), and the error of a failed prompt wait
\* carries the partial buffer of that wait.
C15_ErrorsIdentifyStage ==
    (pc = "done" /\ ret.fmt # "nil") =>
        /\ StageNamed(ret) = FailedStage
        /\ (variant = "telnet" /\ FailedStage \in {"login wait", "password wait", "shell wait"})
              => CarriesText(ret, rv.s)

\* the byte at position n of the stream was treated afresh: as the start of
\* a control sequence when it is IAC, as an application byte otherwise
Fresh(n) == IF rd[n] = IAC THEN n \in starts ELSE n \in appPos

\* the positions at which a subnegotiation was opened: IAC at p, SB at p + 1
SbStarts == {p \in starts : p + 1 <= Len(rd) /\ rd[p + 1] = SB}

\* the first position after the SB of p at which an SE stands right after an
\* IAC of the subnegotiation data (0: none yet)
FirstIacSe(p) ==
    LET ends == {q \in (p + 3)..Len(rd) : rd[q - 1] = IAC /\ rd[q] = SE}
    IN IF ends = {} THEN 0 ELSE CHOOSE q \in ends : \A r \in ends : q <= r

\* the number of IAC bytes of the subnegotiation data of p that stand in a
\* row right before position q
IacRun(p, q) ==
    CHOOSE n \in 0..(q - p - 2) :
        /\ \A j \in (q - n)..(q - 1) : rd[j] = IAC
        /\ (n = q - p - 2 \/ rd[q - n - 1] # IAC)

\* the first position after the SB of p at which an SE stands after an odd
\* number of IAC bytes in a row (0: none yet)
FirstPairedIacSe(p) ==
    LET ends == {q \in (p + 3)..Len(rd) : rd[q] = SE /\ IacRun(p, q) % 2 = 1}
    IN IF ends = {} THEN 0 ELSE CHOOSE q \in ends : \A r \in ends : q <= r

\* the subnegotiation opened at p was consumed up to position e (0: it is
\* still open): nothing of it was buffered, nothing was written meanwhile,
\* and the byte after e was treated afresh
SbConsumedUpTo(p, e) ==
    LET last == IF e = 0 THEN Len(rd) ELSE e
    IN /\ appPos \cap (p..last) = {}
       /\ starts \cap ((p + 1)..last) = {}
       /\ \A n \in p..last : WritesAt(n) = {}
       /\ (e > 0 /\ e < Len(rd)) => Fresh(e + 1)

\* C16 as stated: a subnegotiation is consumed up to and including the first
\* IAC SE after its SB, whatever stands before that IAC.
C16_StopsAtFirstIacSe ==
    \A p \in SbStarts : SbConsumedUpTo(p, FirstIacSe(p))

\* C16, amended: inside a subnegotiation an IAC is consumed together with
\* the byte after it; the subnegotiation is consumed up to and including
\* the first SE that is the second byte of such a pair, that is, the first
\* SE preceded by an odd number of IAC bytes in a row.
C16_StopsAtFirstPairedIacSe ==
    \A p \in SbStarts : SbConsumedUpTo(p, FirstPairedIacSe(p))

\* the case of C16: IAC SB IAC IAC SE, and a byte read after it that is
\* still inside the subnegotiation
C16_Witness ==
    \E p \in SbStarts :
        /\ p + 5 <= Len(rd)
        /\ SubSeq(rd, p + 2, p + 4) = <<IAC, IAC, SE>>
        /\ rd[p + 5] = 97 /\ p + 5 \notin appPos

\* the control sequences that ask for no answer: IAC at p, then a command
\* byte that is not DO, WILL or SB; and their lengths
QuietStarts == {p \in starts : p + 1 <= Len(rd) /\ rd[p + 1] \notin {DO, WILL, SB}}
QuietLen(p) == IF rd[p + 1] \in {WONT, DONT} THEN 3 ELSE 2

\* C17: the filter writes only in answer to DO and WILL.  IAC WONT x and
\* IAC DONT x take exactly three bytes, IAC c for any other c that is not DO,
\* WILL or SB (IAC itself included) exactly two: none of them is buffered,
\* nothing is written while they are read, and the byte after them is
\* treated afresh.
C17_QuietSequencesOnlyConsumed ==
    /\ \A i \in DOMAIN wr :
          \E p \in starts :
             /\ p + 1 <= Len(rd) /\ rd[p + 1] \in {DO, WILL}
             /\ wr[i].at \in {p + 1, p + 2}
    /\ \A p \in QuietStarts :
          LET next == p + QuietLen(p)
              last == IF next - 1 <= Len(rd) THEN next - 1 ELSE Len(rd)
          IN /\ appPos \cap (p..last) = {}
             /\ starts \cap ((p + 1)..last) = {}
             /\ \A n \in p..last : WritesAt(n) = {}
             /\ next <= Len(rd) => Fresh(next)

\* the case of C17: IAC DONT x was read and the byte of text after it was
\* buffered
C17_Witness ==
    \E p \in QuietStarts :
        /\ rd[p + 1] = DONT /\ p + 3 \in appPos
        /\ wr = <<>> /\ Len(buf) = 1

\* C18: when a read fails inside a control sequence the filter stops: the IAC
\* is not buffered, nothing is written after the failure, so every refusal
\* written carries an option byte received from the peer right after IAC DO
\* or IAC WILL, and the call is back at its own read, which fails and makes
\* it return an error.
C18_FilterStopsOnReadError ==
    /\ appPos \cap starts = {}
    /\ \A i \in DOMAIN wr :
          LET n == wr[i].at
          IN /\ n >= 3 /\ (n - 2) \in starts
             /\ rd[n - 1] \in {DO, WILL}
             /\ wr[i].bytes = <<IAC, IF rd[n - 1] = DO THEN WONT ELSE DONT, rd[n]>>
    /\ fails > 0 =>
          /\ pc \in {"rua_read", "ret"}
          /\ ReadFails
          /\ pc = "ret" => rv.err.fmt # "nil"

\* C19: the buffer of readUntilAny, and the string it returns, never hold the
\* byte IAC, whatever the stream and wherever a read fails; the buffer changes
\* only by the append of the byte just read, which is not IAC, and is never
\* cut.
C19_NoEscapeInBuffer ==
    /\ [](/\ \A i \in DOMAIN buf : buf[i] # IAC
          /\ \A i \in DOMAIN rv.s : rv.s[i] # IAC)
    /\ [][ \/ buf' = buf
           \/ /\ Len(rd') = Len(rd) + 1
              /\ rd'[Len(rd')] # IAC
              /\ buf' = Append(buf, rd'[Len(rd')]) ]_vars

\* the case of C19: text before and after a control sequence is in the
\* buffer, then a read failed
C19_Witness ==
    /\ pc = "ret" /\ fails > 0
    /\ Len(rv.s) = 2 /\ 1 \in appPos
    /\ \E p \in starts : \E q \in appPos : p < q

====
